---------------------------- MODULE Spec2Model ----------------------------
(***************************************************************************)
(* Model of integrations/dspy/src/databricks_dspy/clients/genie.py:        *)
(*   GenieToolResponse.from_genie_response  (response normalisation),      *)
(*   GenieTool.forward                      (one service call),            *)
(*   GenieAgent.forward / start_over        (conversation id across turns).*)
(*                                                                         *)
(* Python values are records [t, n, s, items]: t is the type tag, n the    *)
(* value of an int, s the characters of a str (a sequence of one-character *)
(* strings), items the elements of a list.                                 *)
(***************************************************************************)
EXTENDS Integers, Sequences, FiniteSets, TLC

VARIABLES
    raw,              \* normaliser harness: the GenieResponse handed to from_genie_response
    norm,             \* normaliser harness: <<the GenieToolResponse returned>>, <<>> before
    procs,            \* the callers using the one GenieAgent instance
    conversation_id,  \* GenieAgent.conversation_id
    pc,               \* per caller: position inside GenieAgent.forward
    sent,             \* per caller: the conversation_id argument given to Genie.ask_question
    genie_response,   \* per caller: <<the local genie_response of forward>>, <<>> if none
    outcome,          \* per caller: what the last forward call gave its caller
    resp_id,          \* per caller: the conversation id the service returned to this call
    svc_calls,        \* per caller: Genie.ask_question invocations of this forward call
    lm_calls,         \* per caller: self.generator invocations of this forward call
    svc_err,          \* per caller: the error Genie.ask_question raised in this call, "" if none
    lm_err,           \* per caller: the error self.generator raised in this call, "" if none
    last_returned,    \* service side: latest non-empty id returned since construction / start_over
    started,          \* service side: id-less requests answered with a fresh id since then (capped)
    last_op,          \* the operation that last touched the agent
    reset_flip        \* flips at every start_over

vars == <<raw, norm, procs, conversation_id, pc, sent, genie_response, outcome,
          resp_id, svc_calls, lm_calls, svc_err, lm_err, last_returned, started,
          last_op, reset_flip>>

agentVars == <<procs, conversation_id, pc, sent, genie_response, outcome,
               resp_id, svc_calls, lm_calls, svc_err, lm_err, last_returned, started,
               last_op, reset_flip>>

callVars == <<sent, genie_response, resp_id, svc_calls, lm_calls, svc_err, lm_err>>

-----------------------------------------------------------------------------
(* Bounds *)

MaxLen == 4       \* longest result string the service returns

-----------------------------------------------------------------------------
(* Python values *)

PyNone == [t |-> "none", n |-> 0, s |-> <<>>, items |-> <<>>]

PyStr(chars) == [t |-> "str", n |-> 0, s |-> chars, items |-> <<>>]

PyInt(k) == [t |-> "int", n |-> k, s |-> <<>>, items |-> <<>>]

PyList(xs) == [t |-> "list", n |-> 0, s |-> <<>>, items |-> xs]

\* bool(v): None, "", [] and 0 are falsy
Truthy(v) ==
    CASE v.t = "none" -> FALSE
      [] v.t = "str"  -> v.s # <<>>
      [] v.t = "list" -> v.items # <<>>
      [] v.t = "int"  -> v.n # 0

DigitChar(d) == IF d = 0 THEN "0" ELSE "1"

RECURSIVE IntDigits(_)
IntDigits(k) ==
    IF k < 10 THEN <<DigitChar(k)>>
    ELSE IntDigits(k \div 10) \o <<DigitChar(k % 10)>>

RECURSIVE str(_), JoinRepr(_)
\* str(v); the elements of a list are ints or lists, whose repr is their str
str(v) ==
    CASE v.t = "none" -> <<"N", "o", "n", "e">>
      [] v.t = "str"  -> v.s
      [] v.t = "int"  -> IntDigits(v.n)
      [] v.t = "list" -> <<"[">> \o JoinRepr(v.items) \o <<"]">>

JoinRepr(xs) ==
    IF xs = <<>> THEN <<>>
    ELSE IF Len(xs) = 1 THEN str(xs[1])
    ELSE str(xs[1]) \o <<",", " ">> \o JoinRepr(Tail(xs))

-----------------------------------------------------------------------------
(* json.loads on a str: the decoder restricted to arrays and non-negative  *)
(* integers (the characters the model's strings are made of).              *)

Whitespace == {" "}

Digits == {"0", "1"}

DigitVal(c) == IF c = "0" THEN 0 ELSE 1

JsonFail == [ok |-> FALSE, val |-> PyNone, end |-> 0]

JsonOk(v, e) == [ok |-> TRUE, val |-> v, end |-> e]

RECURSIVE SkipWs(_, _)
\* WHITESPACE.match(s, i).end(): first index at or after i that is no whitespace
SkipWs(s, i) ==
    IF i <= Len(s) /\ s[i] \in Whitespace THEN SkipWs(s, i + 1) ELSE i

RECURSIVE ScanDigits(_, _, _)
\* [1-9]\d* from index i on, acc the value so far
ScanDigits(s, i, acc) ==
    IF i <= Len(s) /\ s[i] \in Digits
    THEN ScanDigits(s, i + 1, acc * 10 + DigitVal(s[i]))
    ELSE JsonOk(PyInt(acc), i)

\* variant: any run of digits is taken as one number
ScanNumber_AnyDigits(s, i) == ScanDigits(s, i, 0)

\* NUMBER_RE = (-?(?:0|[1-9]\d*)): a leading 0 is a number on its own
ScanNumber(s, i) ==
    IF s[i] = "0" THEN JsonOk(PyInt(0), i + 1) ELSE ScanDigits(s, i, 0)

RECURSIVE scan_once(_, _), JSONArray(_, _, _)
scan_once(s, i) ==
    IF i > Len(s) THEN JsonFail
    ELSE IF s[i] = "["
    THEN LET j == SkipWs(s, i + 1)
         IN  IF j <= Len(s) /\ s[j] = "]" THEN JsonOk(PyList(<<>>), j + 1)
             ELSE JSONArray(s, j, <<>>)
    ELSE IF s[i] \in Digits THEN ScanNumber(s, i)
    ELSE JsonFail

\* the element loop of JSONArray: value, then "]" or "," after whitespace
JSONArray(s, i, acc) ==
    LET r == scan_once(s, i)
    IN  IF ~r.ok THEN JsonFail
        ELSE LET j == SkipWs(s, r.end)
             IN  IF j > Len(s) THEN JsonFail
                 ELSE IF s[j] = "]" THEN JsonOk(PyList(Append(acc, r.val)), j + 1)
                 ELSE IF s[j] = "," THEN JSONArray(s, SkipWs(s, j + 1), Append(acc, r.val))
                 ELSE JsonFail

\* json.loads(s): ok = FALSE stands for json.JSONDecodeError
json_loads(s) ==
    LET r == scan_once(s, SkipWs(s, 1))
    IN  IF ~r.ok THEN JsonFail
        ELSE IF SkipWs(s, r.end) # Len(s) + 1 THEN JsonFail
        ELSE JsonOk(r.val, Len(s) + 1)

-----------------------------------------------------------------------------
(* GenieToolResponse.from_genie_response *)

\* variant: the note without its separating blank
ParseFailNote_NoBlank ==
    <<"D", "a", "t", "a", " ", "w", "a", "s", " ",
      "r", "e", "t", "u", "r", "n", "e", "d", " ", "b", "u", "t", " ",
      "w", "a", "s", " ", "u", "n", "a", "b", "l", "e", " ", "t", "o", " ",
      "b", "e", " ", "p", "a", "r", "s", "e", "d", ".">>

ParseFailNote ==
    <<" ", "D", "a", "t", "a", " ", "w", "a", "s", " ",
      "r", "e", "t", "u", "r", "n", "e", "d", " ", "b", "u", "t", " ",
      "w", "a", "s", " ", "u", "n", "a", "b", "l", "e", " ", "t", "o", " ",
      "b", "e", " ", "p", "a", "r", "s", "e", "d", ".">>

GenieResponse(d, r, c, q) ==
    [description |-> d, result |-> r, conversation_id |-> c, query |-> q]

GenieToolResponse(t, c, q, d) ==
    [text |-> t, conversation_id |-> c, query |-> q, data |-> d]

\* `genie_response != []`: the response object itself is compared with the
\* empty list; an object with these four fields is never a list
NotEmptyList(gr) == gr # PyList(<<>>)

\* variant: the parse is attempted without looking at the description
should_parse_AnyDescription(gr) ==
    /\ gr.result # PyNone
    /\ NotEmptyList(gr)

\* lines 42-44: the condition under which json.loads is attempted
should_parse(gr) ==
    /\ gr.description # PyNone
    /\ gr.result # PyNone
    /\ NotEmptyList(gr)

\* lines 34-38
text_response(gr) ==
    IF gr.description = PyNone THEN PyStr(str(gr.result)) ELSE gr.description

\* lines 39-59: the try block and its except json.JSONDecodeError branch
from_genie_response(gr) ==
    LET parsed == json_loads(str(gr.result))
    IN  IF should_parse(gr) /\ ~parsed.ok
        THEN GenieToolResponse(PyStr(str(text_response(gr)) \o ParseFailNote),
                               gr.conversation_id, gr.query, PyNone)
        ELSE GenieToolResponse(text_response(gr), gr.conversation_id, gr.query,
                               IF should_parse(gr) THEN parsed.val ELSE PyNone)

-----------------------------------------------------------------------------
(* Inputs *)

Alphabet == {"[", "]", ",", " ", "0", "1", "x"}

Strings == UNION {[1..k -> Alphabet] : k \in 0..MaxLen}

Results ==
    {PyNone, PyList(<<>>), PyList(<<PyInt(1)>>), PyList(<<PyInt(1), PyInt(0)>>)}
    \cup {PyStr(s) : s \in Strings}

Descriptions == {PyNone, PyStr(<<>>), PyStr(<<"R">>)}

Queries == {PyNone, PyStr(<<"q">>)}

RawResponses ==
    {GenieResponse(d, r, c, q) :
        d \in Descriptions, r \in Results,
        c \in {PyNone, PyStr(<<"c", "2">>)}, q \in Queries}

ConversationIds ==
    {PyNone, PyStr(<<>>), PyStr(<<"a", "b", "c">>), PyStr(<<"c", "2">>)}

\* what Genie.ask_question returns to the agent's tool
AgentResponses ==
    {GenieResponse(PyStr(<<"R">>), r, c, PyNone) :
        r \in {PyStr(<<"[", "1", "]">>), PyStr(<<"x">>)}, c \in ConversationIds}

Threads == {1, 2}

ServiceError == "ServiceError"

LMError == "LMError"

-----------------------------------------------------------------------------
(* State after GenieAgent.__init__ *)

NoOutcome == [kind |-> "none", err |-> ""]

Raised(e) == [kind |-> "raise", err |-> e]

Returned == [kind |-> "return", err |-> ""]

Min(a, b) == IF a < b THEN a ELSE b

AgentInit ==
    /\ conversation_id = PyNone
    /\ pc = [p \in Threads |-> "idle"]
    /\ sent = [p \in Threads |-> PyNone]
    /\ genie_response = [p \in Threads |-> <<>>]
    /\ outcome = [p \in Threads |-> NoOutcome]
    /\ resp_id = [p \in Threads |-> PyNone]
    /\ svc_calls = [p \in Threads |-> 0]
    /\ lm_calls = [p \in Threads |-> 0]
    /\ svc_err = [p \in Threads |-> ""]
    /\ lm_err = [p \in Threads |-> ""]
    /\ last_returned = PyNone
    /\ started = 0
    /\ last_op = "init"
    /\ reset_flip = FALSE

-----------------------------------------------------------------------------
(* Normaliser harness: from_genie_response applied to every raw response *)

InitNorm ==
    /\ raw \in RawResponses
    /\ norm = <<>>
    /\ procs = {1}
    /\ AgentInit

Normalize ==
    /\ norm = <<>>
    /\ norm' = <<from_genie_response(raw)>>
    /\ UNCHANGED <<raw, agentVars>>

NextNorm == Normalize

SpecNorm == InitNorm /\ [][NextNorm]_vars

-----------------------------------------------------------------------------
(* GenieAgent.forward and GenieAgent.start_over *)

\* variant: the question is sent without the held id
Ask_NoId(p) ==
    /\ pc[p] = "idle"
    /\ sent' = [sent EXCEPT ![p] = PyNone]
    /\ svc_calls' = [svc_calls EXCEPT ![p] = 1]
    /\ lm_calls' = [lm_calls EXCEPT ![p] = 0]
    /\ svc_err' = [svc_err EXCEPT ![p] = ""]
    /\ lm_err' = [lm_err EXCEPT ![p] = ""]
    /\ resp_id' = [resp_id EXCEPT ![p] = PyNone]
    /\ genie_response' = [genie_response EXCEPT ![p] = <<>>]
    /\ outcome' = [outcome EXCEPT ![p] = NoOutcome]
    /\ pc' = [pc EXCEPT ![p] = "ask"]
    /\ last_op' = "forward"
    /\ UNCHANGED <<raw, norm, procs, conversation_id, last_returned, started, reset_flip>>

\* forward, line 121, up to the call of Genie.ask_question in GenieTool.forward
\* (line 76): self.conversation_id is read and sent with the question
Ask(p) ==
    /\ pc[p] = "idle"
    /\ sent' = [sent EXCEPT ![p] = conversation_id]
    /\ svc_calls' = [svc_calls EXCEPT ![p] = 1]
    /\ lm_calls' = [lm_calls EXCEPT ![p] = 0]
    /\ svc_err' = [svc_err EXCEPT ![p] = ""]
    /\ lm_err' = [lm_err EXCEPT ![p] = ""]
    /\ resp_id' = [resp_id EXCEPT ![p] = PyNone]
    /\ genie_response' = [genie_response EXCEPT ![p] = <<>>]
    /\ outcome' = [outcome EXCEPT ![p] = NoOutcome]
    /\ pc' = [pc EXCEPT ![p] = "ask"]
    /\ last_op' = "forward"
    /\ UNCHANGED <<raw, norm, procs, conversation_id, last_returned, started, reset_flip>>

\* Genie.ask_question returns; GenieTool.forward (line 77) normalises the response
ServiceRespond(p) ==
    /\ pc[p] = "ask"
    /\ \E gr \in AgentResponses :
        /\ genie_response' = [genie_response EXCEPT ![p] = <<from_genie_response(gr)>>]
        /\ resp_id' = [resp_id EXCEPT ![p] = gr.conversation_id]
        /\ last_returned' = IF Truthy(gr.conversation_id) THEN gr.conversation_id
                            ELSE last_returned
        /\ started' = IF sent[p] = PyNone /\ Truthy(gr.conversation_id)
                      THEN Min(started + 1, 2) ELSE started
    /\ pc' = [pc EXCEPT ![p] = "got"]
    /\ UNCHANGED <<raw, norm, procs, conversation_id, sent, outcome, svc_calls,
                   lm_calls, svc_err, lm_err, last_op, reset_flip>>

\* variant: a failed service call drops the held id
ServiceFail_DropsId(p) ==
    /\ pc[p] = "ask"
    /\ svc_err' = [svc_err EXCEPT ![p] = ServiceError]
    /\ outcome' = [outcome EXCEPT ![p] = Raised(ServiceError)]
    /\ pc' = [pc EXCEPT ![p] = "idle"]
    /\ conversation_id' = PyNone
    /\ UNCHANGED <<raw, norm, procs, sent, genie_response, resp_id,
                   svc_calls, lm_calls, lm_err, last_returned, started, last_op,
                   reset_flip>>

\* Genie.ask_question raises; neither GenieTool.forward nor GenieAgent.forward
\* has a handler, so the exception leaves forward
ServiceFail(p) ==
    /\ pc[p] = "ask"
    /\ svc_err' = [svc_err EXCEPT ![p] = ServiceError]
    /\ outcome' = [outcome EXCEPT ![p] = Raised(ServiceError)]
    /\ pc' = [pc EXCEPT ![p] = "idle"]
    /\ UNCHANGED <<raw, norm, procs, conversation_id, sent, genie_response, resp_id,
                   svc_calls, lm_calls, lm_err, last_returned, started, last_op,
                   reset_flip>>

\* variant: `is not None` instead of truthiness, so "" is adopted
UpdateId_NotNone(p) ==
    /\ pc[p] = "got"
    /\ conversation_id' =
          IF genie_response[p][1].conversation_id # PyNone
          THEN genie_response[p][1].conversation_id
          ELSE conversation_id
    /\ pc' = [pc EXCEPT ![p] = "lm"]
    /\ UNCHANGED <<raw, norm, procs, callVars, outcome, last_returned, started,
                   last_op, reset_flip>>

\* variant: an id is adopted only while none is held
UpdateId_FirstWins(p) ==
    /\ pc[p] = "got"
    /\ conversation_id' =
          IF Truthy(genie_response[p][1].conversation_id) /\ conversation_id = PyNone
          THEN genie_response[p][1].conversation_id
          ELSE conversation_id
    /\ pc' = [pc EXCEPT ![p] = "lm"]
    /\ UNCHANGED <<raw, norm, procs, callVars, outcome, last_returned, started,
                   last_op, reset_flip>>

\* lines 123-124: if genie_response.conversation_id: self.conversation_id = ...
UpdateId(p) ==
    /\ pc[p] = "got"
    /\ conversation_id' =
          IF Truthy(genie_response[p][1].conversation_id)
          THEN genie_response[p][1].conversation_id
          ELSE conversation_id
    /\ pc' = [pc EXCEPT ![p] = "lm"]
    /\ UNCHANGED <<raw, norm, procs, callVars, outcome, last_returned, started,
                   last_op, reset_flip>>

\* lines 127-137: self.generator(...) returns and forward returns a Prediction
LMReturn(p) ==
    /\ pc[p] = "lm"
    /\ lm_calls' = [lm_calls EXCEPT ![p] = lm_calls[p] + 1]
    /\ outcome' = [outcome EXCEPT ![p] = Returned]
    /\ genie_response' = [genie_response EXCEPT ![p] = <<>>]
    /\ pc' = [pc EXCEPT ![p] = "idle"]
    /\ UNCHANGED <<raw, norm, procs, conversation_id, sent, resp_id, svc_calls,
                   svc_err, lm_err, last_returned, started, last_op, reset_flip>>

\* variant: a failed reasoning step restores the id held at entry
LMFail_RollsBack(p) ==
    /\ pc[p] = "lm"
    /\ lm_calls' = [lm_calls EXCEPT ![p] = lm_calls[p] + 1]
    /\ lm_err' = [lm_err EXCEPT ![p] = LMError]
    /\ outcome' = [outcome EXCEPT ![p] = Raised(LMError)]
    /\ genie_response' = [genie_response EXCEPT ![p] = <<>>]
    /\ pc' = [pc EXCEPT ![p] = "idle"]
    /\ conversation_id' = sent[p]
    /\ UNCHANGED <<raw, norm, procs, sent, resp_id, svc_calls,
                   svc_err, last_returned, started, last_op, reset_flip>>

\* lines 127-135: self.generator(...) raises; no handler, the exception leaves forward
LMFail(p) ==
    /\ pc[p] = "lm"
    /\ lm_calls' = [lm_calls EXCEPT ![p] = lm_calls[p] + 1]
    /\ lm_err' = [lm_err EXCEPT ![p] = LMError]
    /\ outcome' = [outcome EXCEPT ![p] = Raised(LMError)]
    /\ genie_response' = [genie_response EXCEPT ![p] = <<>>]
    /\ pc' = [pc EXCEPT ![p] = "idle"]
    /\ UNCHANGED <<raw, norm, procs, conversation_id, sent, resp_id, svc_calls,
                   svc_err, last_returned, started, last_op, reset_flip>>

\* variant: the held id survives
start_over_KeepsId(p) ==
    /\ pc[p] = "idle"
    /\ last_returned' = PyNone
    /\ started' = 0
    /\ last_op' = "start_over"
    /\ reset_flip' = ~reset_flip
    /\ UNCHANGED <<raw, norm, procs, conversation_id, pc, callVars, outcome>>

\* lines 139-140
start_over(p) ==
    /\ pc[p] = "idle"
    /\ conversation_id' = PyNone
    /\ last_returned' = PyNone
    /\ started' = 0
    /\ last_op' = "start_over"
    /\ reset_flip' = ~reset_flip
    /\ UNCHANGED <<raw, norm, procs, pc, callVars, outcome>>

Next ==
    \E p \in procs :
        \/ Ask(p)
        \/ ServiceRespond(p)
        \/ ServiceFail(p)
        \/ UpdateId(p)
        \/ LMReturn(p)
        \/ LMFail(p)
        \/ start_over(p)

\* one owner calling forward and start_over one after the other
Init ==
    /\ raw = GenieResponse(PyNone, PyNone, PyNone, PyNone)
    /\ norm = <<>>
    /\ procs = {1}
    /\ AgentInit

Spec == Init /\ [][Next]_vars

\* the same agent instance, used by one caller or by two overlapping callers
InitConc ==
    /\ raw = GenieResponse(PyNone, PyNone, PyNone, PyNone)
    /\ norm = <<>>
    /\ procs \in {{1}, Threads}
    /\ AgentInit

SpecConc == InitConc /\ [][Next]_vars

-----------------------------------------------------------------------------
(* Properties of from_genie_response, checked under SpecNorm *)

Normalized == norm # <<>>

EmptyList == PyList(<<>>)

Parseable(v) == json_loads(str(v)).ok

RECURSIVE StripWs(_)
\* s without its whitespace characters
StripWs(s) ==
    IF s = <<>> THEN <<>>
    ELSE IF Head(s) \in Whitespace THEN StripWs(Tail(s))
    ELSE <<Head(s)>> \o StripWs(Tail(s))

RECURSIVE Dumps(_), DumpItems(_)
\* the compact JSON text of a parsed value
Dumps(v) ==
    IF v.t = "int" THEN IntDigits(v.n)
    ELSE <<"[">> \o DumpItems(v.items) \o <<"]">>

DumpItems(xs) ==
    IF xs = <<>> THEN <<>>
    ELSE IF Len(xs) = 1 THEN Dumps(xs[1])
    ELSE Dumps(xs[1]) \o <<",">> \o DumpItems(Tail(xs))

\* C4: whenever result is the empty list, the normalized data is absent,
\* whatever the description is.
C4_EmptyListGivesNoData ==
    (Normalized /\ raw.result = EmptyList) => norm[1].data = PyNone

\* C5: description present, result present and not parseable: the normalized
\* response has data absent, text = description followed by the fixed note
\* " Data was returned but was unable to be parsed.", and conversation_id
\* and query equal to the raw ones.
C5_ParseFailureDegrades ==
    (/\ Normalized
     /\ raw.description # PyNone
     /\ raw.result # PyNone
     /\ ~Parseable(raw.result))
    => /\ norm[1].data = PyNone
       /\ norm[1].text.t = "str"
       /\ norm[1].text.s = raw.description.s \o
            <<" ", "D", "a", "t", "a", " ", "w", "a", "s", " ", "r", "e", "t", "u",
              "r", "n", "e", "d", " ", "b", "u", "t", " ", "w", "a", "s", " ", "u",
              "n", "a", "b", "l", "e", " ", "t", "o", " ", "b", "e", " ", "p", "a",
              "r", "s", "e", "d", ".">>
       /\ norm[1].conversation_id = raw.conversation_id
       /\ norm[1].query = raw.query

C5_Witness ==
    /\ Normalized
    /\ raw.description = PyStr(<<"R">>)
    /\ raw.result = PyStr(<<"[", "1", ",", "]">>)
    /\ raw.conversation_id = PyStr(<<"c", "2">>)
    /\ norm[1].data = PyNone
    /\ Len(norm[1].text.s) = 1 + Len(ParseFailNote)

\* C6: description present, result present, not the empty list and parseable:
\* data is the parsed value (a list or an int whose compact JSON text is the
\* result's string form without whitespace), text is the description
\* unchanged, conversation_id and query are the raw ones.
C6_ParsedDataReturned ==
    (/\ Normalized
     /\ raw.description # PyNone
     /\ raw.result # PyNone
     /\ raw.result # EmptyList
     /\ Parseable(raw.result))
    => /\ norm[1].data = json_loads(str(raw.result)).val
       /\ norm[1].data.t \in {"list", "int"}
       /\ Dumps(norm[1].data) = StripWs(str(raw.result))
       /\ norm[1].text = raw.description
       /\ norm[1].conversation_id = raw.conversation_id
       /\ norm[1].query = raw.query

C6_Witness ==
    /\ Normalized
    /\ raw.description = PyStr(<<"R">>)
    /\ raw.result = PyStr(<<"[", "1", " ", "]">>)
    /\ raw.query = PyStr(<<"q">>)
    /\ norm[1].data = PyList(<<PyInt(1)>>)
    /\ norm[1].text = PyStr(<<"R">>)

\* C7: description absent: text is str(result) ("None" for an absent result,
\* the string itself for a string, "[]" for the empty list) and data is
\* absent, whatever result is.
C7_NoDescriptionNoParse ==
    (Normalized /\ raw.description = PyNone)
    => /\ norm[1].data = PyNone
       /\ norm[1].text = PyStr(str(raw.result))
       /\ raw.result = PyNone => norm[1].text.s = <<"N", "o", "n", "e">>
       /\ raw.result.t = "str" => norm[1].text.s = raw.result.s
       /\ raw.result = EmptyList => norm[1].text.s = <<"[", "]">>

C7_Witness ==
    /\ Normalized
    /\ raw.description = PyNone
    /\ raw.result = PyStr(<<"[", "1", "]">>)
    /\ norm[1].data = PyNone
    /\ norm[1].text = PyStr(<<"[", "1", "]">>)

-----------------------------------------------------------------------------
(* Properties of GenieAgent, checked under Spec (one caller) *)

Abc == PyStr(<<"a", "b", "c">>)

C2Id == PyStr(<<"c", "2">>)

Starts(p) == pc[p] = "idle" /\ pc'[p] = "ask"

\* C1: every outbound request carries the id held at that moment, which is
\* the latest non-empty id a service response returned since construction or
\* the last start_over, and None if there was none.
C1_Continuity ==
    [][\A p \in Threads :
         Starts(p) => (sent'[p] = conversation_id /\ sent'[p] = last_returned)]_vars

C1_Witness ==
    /\ pc[1] = "ask"
    /\ sent[1] = Abc
    /\ last_returned = Abc
    /\ last_op = "forward"

\* C2: the agent starts with no id held; the update of a forward call sets
\* the held id to the response's id when that is non-empty and leaves it as it
\* was when that is None or ""; the held id becomes None only by start_over.
C2_HeldIdTransitions ==
    /\ conversation_id = PyNone
    /\ [][/\ \A p \in Threads :
               (pc[p] = "got" /\ pc'[p] # "got") =>
                   conversation_id' = IF resp_id[p] \in {PyNone, PyStr(<<>>)}
                                      THEN conversation_id ELSE resp_id[p]
          /\ (\A p \in Threads : ~(pc[p] = "got" /\ pc'[p] # "got")) =>
                   (conversation_id' # conversation_id => reset_flip' # reset_flip)
          /\ (conversation_id # PyNone /\ conversation_id' = PyNone) =>
                   reset_flip' # reset_flip]_vars

C2_Witness ==
    /\ pc[1] = "lm"
    /\ resp_id[1] = PyStr(<<>>)
    /\ conversation_id = Abc

\* C3: start_over leaves no id held whatever was held, raises nothing, calls
\* neither the service nor the language model, and changes nothing at all when
\* no id was held.
C3_StartOver ==
    [][reset_flip' # reset_flip =>
         /\ conversation_id' = PyNone
         /\ svc_calls' = svc_calls
         /\ lm_calls' = lm_calls
         /\ outcome' = outcome
         /\ pc' = pc
         /\ conversation_id = PyNone =>
              UNCHANGED <<conversation_id, pc, sent, genie_response, outcome>>]_vars

C3_Witness ==
    /\ last_op = "start_over"
    /\ conversation_id = PyNone
    /\ resp_id[1] = Abc
    /\ outcome[1] = Returned

\* C8: when the service call fails, forward ends by raising that error, with
\* one service call made, the language model not called and the held id the
\* one held when the call began.
C8_ServiceFailure ==
    /\ [](\A p \in Threads :
            svc_err[p] # "" => (svc_calls[p] = 1 /\ lm_calls[p] = 0 /\ pc[p] = "idle"))
    /\ [][\A p \in Threads :
            (svc_err[p] = "" /\ svc_err'[p] # "") =>
                /\ pc'[p] = "idle"
                /\ outcome'[p] = Raised(svc_err'[p])
                /\ conversation_id' = sent[p]
                /\ svc_calls'[p] = 1
                /\ lm_calls'[p] = 0]_vars

C8_Witness ==
    /\ pc[1] = "idle"
    /\ svc_err[1] = ServiceError
    /\ outcome[1] = Raised(ServiceError)
    /\ sent[1] = Abc
    /\ conversation_id = Abc

\* C9: when the language-model step fails after a response with non-empty id
\* X, forward ends by raising that error with one service call and one model
\* call made, X is held, and the next forward call sends X.
C9_NoRollback ==
    /\ [](\A p \in Threads :
            lm_err[p] # "" => (svc_calls[p] = 1 /\ lm_calls[p] = 1 /\ pc[p] = "idle"))
    /\ [][\A p \in Threads :
            /\ (lm_err[p] = "" /\ lm_err'[p] # "") =>
                  /\ pc'[p] = "idle"
                  /\ outcome'[p] = Raised(lm_err'[p])
                  /\ Truthy(resp_id[p]) => conversation_id' = resp_id[p]
            /\ (Starts(p) /\ lm_err[p] # "" /\ Truthy(resp_id[p]) /\ last_op = "forward")
                  => sent'[p] = resp_id[p]]_vars

C9_Witness ==
    /\ pc[1] = "idle"
    /\ lm_err[1] = LMError
    /\ outcome[1] = Raised(LMError)
    /\ sent[1] = Abc
    /\ resp_id[1] = C2Id
    /\ conversation_id = C2Id

-----------------------------------------------------------------------------
(* Overlapping callers, checked under SpecConc *)

\* C10: with one caller, two id-less requests are never both answered with a
\* fresh id between two start_over calls; with two overlapping callers they
\* can be, and each call's update overwrites the held id with its own
\* response's id, so the id held once both have updated is that of the call
\* whose update ran last.
C10_NotReentrant ==
    /\ [](procs = {1} => started < 2)
    /\ []((pc[1] = "lm" /\ pc[2] = "lm" /\ Truthy(resp_id[1]) /\ Truthy(resp_id[2]))
            => conversation_id \in {resp_id[1], resp_id[2]})
    /\ [][\A p \in Threads :
            (pc[p] = "got" /\ pc'[p] # "got" /\ Truthy(resp_id[p]))
                => conversation_id' = resp_id[p]]_vars

C10_Witness ==
    /\ procs = Threads
    /\ started = 2
    /\ sent[1] = PyNone /\ sent[2] = PyNone
    /\ pc[1] = "lm" /\ pc[2] = "lm"
    /\ resp_id[1] = Abc /\ resp_id[2] = C2Id
    /\ conversation_id = C2Id

=============================================================================
